---- MODULE Spec2Model ----
(***************************************************************************)
(* The hotel city-tax form (component Home).  The source file holds two    *)
(* versions of the component: the first ("strict", lines 16-302) filters   *)
(* typed text with a regular expression, formats an amount on blur,        *)
(* rejects blank rows on calculation and has a reset button; the second    *)
(* ("lenient", lines 319-507) stores typed text as is, skips blank rows on *)
(* calculation and has neither blur formatting nor reset.                  *)
(*                                                                         *)
(* A text is a sequence of one-character strings.  A parsed number is a    *)
(* record [nan, neg, mant, frac] standing for (-1)^neg * mant / 10^frac.   *)
(* Numbers are kept as exact decimals; the doubles of the program differ   *)
(* from them by a rounding error, which shows only where a value is        *)
(* rounded and lies exactly between two hundredths (see RoundedHundredths).*)
(***************************************************************************)
EXTENDS Naturals, Sequences, FiniteSets, TLC

VARIABLES variant, inputs, nextId, result, error, isResultVisible,
          last, assigned, issued, failedSinceCall, failedSinceEdit

vars == <<variant, inputs, nextId, result, error, isResultVisible,
          last, assigned, issued, failedSinceCall, failedSinceEdit>>

(***************************************************************************)
(* variant is the version of the component that is running.  inputs,       *)
(* nextId, result, error and isResultVisible are its React state and its   *)
(* nextId ref.  The rest is history the properties refer to:               *)
(*   last             the handler that ran last and whether it took effect *)
(*                    (the text was stored, the row removed, the           *)
(*                    calculation passed validation);                      *)
(*   assigned         the ids given to a row since construction;           *)
(*   issued           the ids given to a row since construction or the     *)
(*                    last reset;                                          *)
(*   failedSinceCall  the last calculation failed and handleInputChange    *)
(*                    was not called since;                                *)
(*   failedSinceEdit  the last calculation failed and since then no        *)
(*                    handleInputChange stored a text and handleReset did  *)
(*                    not run.                                             *)
(***************************************************************************)

(***************************************************************************)
(* Bounds.                                                                 *)
(***************************************************************************)
\* Most rows the form holds at once.
MaxEntries == 2
\* Largest id handed out before addInput is cut off.
MaxId == 3
\* Longest text of the exhaustive text specification.
MaxLen == 3

(***************************************************************************)
(* Characters and texts.                                                   *)
(***************************************************************************)
Digits == {"0", "1", "2", "3", "4", "5", "6", "7", "8", "9"}

DigitVal(c) ==
  CASE c = "0" -> 0 [] c = "1" -> 1 [] c = "2" -> 2 [] c = "3" -> 3
    [] c = "4" -> 4 [] c = "5" -> 5 [] c = "6" -> 6 [] c = "7" -> 7
    [] c = "8" -> 8 [] c = "9" -> 9

DigitChar(d) ==
  CASE d = 0 -> "0" [] d = 1 -> "1" [] d = 2 -> "2" [] d = 3 -> "3"
    [] d = 4 -> "4" [] d = 5 -> "5" [] d = 6 -> "6" [] d = 7 -> "7"
    [] d = 8 -> "8" [] d = 9 -> "9"

RECURSIVE Pow10(_)
Pow10(k) == IF k = 0 THEN 1 ELSE 10 * Pow10(k - 1)

Max(a, b) == IF a >= b THEN a ELSE b

\* Number of leading characters of s that are in set cs.
RECURSIVE SpanOf(_, _)
SpanOf(s, cs) ==
  IF s # <<>> /\ Head(s) \in cs THEN 1 + SpanOf(Tail(s), cs) ELSE 0

Drop(s, k) == SubSeq(s, k + 1, Len(s))
Take(s, k) == SubSeq(s, 1, k)

RECURSIVE Reverse(_)
Reverse(s) == IF s = <<>> THEN <<>> ELSE Append(Reverse(Tail(s)), Head(s))

\* String.prototype.trim: white space removed at both ends.
Trim(s) ==
  LET a == Drop(s, SpanOf(s, {" "}))
  IN  Reverse(Drop(Reverse(a), SpanOf(Reverse(a), {" "})))

\* input.value.trim() === ''
IsBlank(s) == Trim(s) = <<>>

\* String.prototype.replace(from, to) with a string pattern: the first
\* occurrence only.
RECURSIVE ReplaceFirst(_, _, _)
ReplaceFirst(s, from, to) ==
  IF s = <<>> THEN <<>>
  ELSE IF Head(s) = from THEN <<to>> \o Tail(s)
  ELSE <<Head(s)>> \o ReplaceFirst(Tail(s), from, to)

\* Value of a digit sequence, most significant digit first.
RECURSIVE DigitsToNat(_)
DigitsToNat(s) ==
  IF s = <<>> THEN 0 ELSE 10 * DigitsToNat(Take(s, Len(s) - 1)) + DigitVal(s[Len(s)])

\* Decimal digits of n, at least one.
RECURSIVE NatToDigits(_)
NatToDigits(n) ==
  IF n < 10 THEN <<DigitChar(n)>>
  ELSE Append(NatToDigits(n \div 10), DigitChar(n % 10))

(***************************************************************************)
(* The input filter of the strict version:  /^\d*([,.]\d{0,2})?$/          *)
(***************************************************************************)
\* The filter without its end anchor "$": a prefix of every text matches.
regexTestNoEndAnchor(value) == SpanOf(value, Digits) <= Len(value)

regexTest(value) ==
  LET rest == Drop(value, SpanOf(value, Digits))
  IN  \/ rest = <<>>
      \/ /\ Head(rest) \in {",", "."}
         /\ Len(Tail(rest)) <= 2
         /\ SpanOf(Tail(rest), Digits) = Len(Tail(rest))

(***************************************************************************)
(* parseFloat: leading white space is skipped, then the longest prefix     *)
(* that is a decimal literal (sign, digits, point, digits) is read; NaN    *)
(* when there is none.  Exponents and "Infinity" need characters that are  *)
(* in none of the texts used here.                                         *)
(***************************************************************************)
NaN == [nan |-> TRUE, neg |-> FALSE, mant |-> 0, frac |-> 0]

parseFloat(s) ==
  LET a    == Drop(s, SpanOf(s, {" "}))
      sign == IF a # <<>> /\ Head(a) \in {"-", "+"} THEN 1 ELSE 0
      b    == Drop(a, sign)
      ni   == SpanOf(b, Digits)
      c    == Drop(b, ni)
      dot  == c # <<>> /\ Head(c) = "."
      nf   == IF dot THEN SpanOf(Tail(c), Digits) ELSE 0
      fr   == IF dot THEN Take(Tail(c), nf) ELSE <<>>
  IN  IF ni = 0 /\ nf = 0 THEN NaN
      ELSE [nan  |-> FALSE,
            neg  |-> (sign = 1 /\ Head(a) = "-"),
            mant |-> DigitsToNat(Take(b, ni) \o fr),
            frac |-> nf]

\* The validation without its "numericValue < 0" test.
IsNegativeNever(v) == FALSE

\* numericValue < 0  (false for NaN and for -0)
IsNegative(v) == ~v.nan /\ v.neg /\ v.mant > 0

(***************************************************************************)
(* Number.prototype.toFixed(2): the nearest multiple of 1/100 (of two      *)
(* equally near ones the larger), at least one integer digit, "." and two  *)
(* fraction digits, "-" in front of a value below zero.  A text the filter *)
(* stores has at most two fraction digits, so blur never rounds.           *)
(***************************************************************************)
toFixed2(v) ==
  LET den == Pow10(v.frac)
      num == v.mant * 100
      q   == num \div den
      n   == IF 2 * (num % den) >= den THEN q + 1 ELSE q
      fr  == NatToDigits(n % 100)
  IN  (IF IsNegative(v) THEN <<"-">> ELSE <<>>)
        \o NatToDigits(n \div 100) \o <<".">>
        \o (IF Len(fr) = 1 THEN <<"0">> \o fr ELSE fr)

(***************************************************************************)
(* The running sum of handleCalculation and its final value.               *)
(***************************************************************************)
\* sum += numericValue, both exact decimals.
AddTo(sum, v) ==
  LET f == Max(sum.frac, v.frac)
  IN  [mant |-> sum.mant * Pow10(f - sum.frac) + v.mant * Pow10(f - v.frac),
       frac |-> f]

\* 5% of the sum instead of 5% of the average.
finalResultValueOfSum(sum, n) ==
  [num |-> sum.mant * 5, den |-> Pow10(sum.frac)]

\* (sum / inputs.length) * 0.05 as the fraction num/den of one hundredth.
finalResultValue(sum, n) ==
  [num |-> sum.mant * 5, den |-> n * Pow10(sum.frac)]

(***************************************************************************)
(* Intl.NumberFormat('de-DE', {style: 'currency', currency: 'EUR', 2..2    *)
(* fraction digits}).formatToParts.  The value is rounded to hundredths,   *)
(* to the nearest one.  When the decimal value lies exactly between two    *)
(* hundredths the double that the arithmetic produced lies a rounding      *)
(* error above or below it and either neighbour is printed (4.1 * 0.05     *)
(* prints as 0,21 and 286.9 * 0.05 as 14,34), so both are outcomes.        *)
(***************************************************************************)
RoundedHundredths(x) ==
  LET q == x.num \div x.den
      r == x.num % x.den
  IN  IF 2 * r < x.den THEN {q}
      ELSE IF 2 * r > x.den THEN {q + 1}
      ELSE {q, q + 1}

\* The integer digits in groups of three, "." between the groups.
RECURSIVE IntegerParts(_)
IntegerParts(ds) ==
  IF Len(ds) <= 3 THEN <<[type |-> "integer", value |-> ds]>>
  ELSE IntegerParts(Take(ds, Len(ds) - 3))
         \o <<[type |-> "group", value |-> <<".">>],
              [type |-> "integer", value |-> Drop(ds, Len(ds) - 3)]>>

formatToParts(h) ==
  LET fr == NatToDigits(h % 100)
  IN  IntegerParts(NatToDigits(h \div 100))
        \o <<[type |-> "decimal", value |-> <<",">>],
             [type |-> "fraction", value |-> IF Len(fr) = 1 THEN <<"0">> \o fr ELSE fr],
             [type |-> "literal", value |-> <<" ">>],
             [type |-> "currency", value |-> <<"€">>]>>

\* parts.forEach of handleCalculation: the currency part sets the symbol, the
\* integer, group, decimal and fraction parts are appended to the number.
RECURSIVE CollectParts(_, _)
CollectParts(parts, acc) ==
  IF parts = <<>> THEN acc
  ELSE LET part == Head(parts)
       IN  CollectParts(Tail(parts),
             IF part.type = "currency"
             THEN [acc EXCEPT !.currency = part.value]
             ELSE IF part.type \in {"integer", "group", "decimal", "fraction"}
             THEN [acc EXCEPT !.number = @ \o part.value]
             ELSE acc)

ResultOf(h) == CollectParts(formatToParts(h), [number |-> <<>>, currency |-> <<"€">>])

(***************************************************************************)
(* The validation loop of handleCalculation over inputs[i..].              *)
(***************************************************************************)
NoError == ""
MissingAmount == "Bitte füllen Sie alle Felder aus oder entfernen Sie leere Zeilen."
InvalidAmount == "Bitte stellen Sie sicher, dass alle Beträge gültige, positive Zahlen sind."

\* The strict loop skipping blank rows as the lenient one does.
BlankIsErrorNever(v) == FALSE

\* Blank rows end the strict loop with an error and are skipped by the
\* lenient one.
BlankIsError(v) == v = "strict"

RECURSIVE Walk(_, _, _, _)
Walk(v, ins, i, sum) ==
  IF i > Len(ins) THEN [error |-> NoError, sum |-> sum]
  ELSE IF IsBlank(ins[i].value)
       THEN IF BlankIsError(v) THEN [error |-> MissingAmount, sum |-> sum]
            ELSE Walk(v, ins, i + 1, sum)
  ELSE LET numericValue == parseFloat(ReplaceFirst(ins[i].value, ",", "."))
       IN  IF numericValue.nan \/ IsNegative(numericValue)
           THEN [error |-> InvalidAmount, sum |-> sum]
           ELSE Walk(v, ins, i + 1, AddTo(sum, numericValue))

Validate(v, ins) == Walk(v, ins, 1, [mant |-> 0, frac |-> 0])

\* The results a calculation on ins can publish (empty when it fails).
Outcomes(v, ins) ==
  LET w == Validate(v, ins)
  IN  IF w.error # NoError THEN {}
      ELSE {ResultOf(h) : h \in RoundedHundredths(finalResultValue(w.sum, Len(ins)))}

(***************************************************************************)
(* State after construction (useState / useRef initial values).            *)
(***************************************************************************)
InitialInputs == <<[id |-> 1, value |-> <<>>]>>
InitialNextId == 2
InitialResult == [number |-> <<"0", ".", "0", "0">>, currency |-> <<"€">>]

Variants == {"strict", "lenient"}

\* Texts typed or pasted into a row in the form specification.
RawTexts ==
  { <<>>, <<"1", "0">>, <<"2", "0">>, <<".">>, <<"-", "5">>, <<"a", "b", "c">> }

\* Every text up to MaxLen over the characters of the filled-in forms.
Chars == {"0", "1", "5", ",", ".", "-", "a", " "}
AllTexts == UNION {[1..n -> Chars] : n \in 0..MaxLen}

\* Every text up to MaxLen over the characters typed into the single row.
TypedChars == {"5", ",", ".", "-", "a", " "}
TypedTexts == UNION {[1..n -> TypedChars] : n \in 0..MaxLen}

IdsOf(ins) == {ins[i].id : i \in 1..Len(ins)}

Init ==
  /\ variant \in Variants
  /\ inputs = InitialInputs
  /\ nextId = InitialNextId
  /\ result = InitialResult
  /\ error = NoError
  /\ isResultVisible = FALSE
  /\ last = [op |-> "init", ok |-> TRUE]
  /\ assigned = {1}
  /\ issued = {1}
  /\ failedSinceCall = FALSE
  /\ failedSinceEdit = FALSE

(***************************************************************************)
(* handleInputChange                                                       *)
(***************************************************************************)
\* inputs.map((input) => input.id === id ? { ...input, value } : input)
SetValue(ins, id, value) ==
  [i \in 1..Len(ins) |->
     IF ins[i].id = id THEN [ins[i] EXCEPT !.value = value] ELSE ins[i]]

\* The strict version stores only text that passes the filter.
Accepts(v, value) == v = "strict" => regexTest(value)

\* The strict version hides the result card on every change event.
HidesOnChange(v) == v = "strict"

\* The rows after a change event on row id.
ChangeInputs(v, ins, id, value) ==
  IF Accepts(v, value) THEN SetValue(ins, id, value) ELSE ins

handleInputChange(id, value) ==
  /\ isResultVisible' = IF HidesOnChange(variant) THEN FALSE ELSE isResultVisible
  /\ inputs' = ChangeInputs(variant, inputs, id, value)
  /\ IF Accepts(variant, value)
     THEN /\ error' = NoError
          /\ failedSinceEdit' = FALSE
     ELSE UNCHANGED <<error, failedSinceEdit>>
  /\ last' = [op |-> "handleInputChange", ok |-> Accepts(variant, value)]
  /\ failedSinceCall' = FALSE
  /\ UNCHANGED <<variant, nextId, result, assigned, issued>>

(***************************************************************************)
(* handleInputBlur (strict version only)                                   *)
(***************************************************************************)
\* Blur parsing the text as typed, its comma not turned into a period.
BlurValueUnsanitized(value) ==
  IF IsBlank(value) THEN value
  ELSE LET numericValue == parseFloat(value)
       IN  IF numericValue.nan THEN value
           ELSE ReplaceFirst(toFixed2(numericValue), ".", ",")

\* The text a row holds after it lost focus.
BlurValue(value) ==
  IF IsBlank(value) THEN value
  ELSE LET numericValue == parseFloat(ReplaceFirst(value, ",", "."))
       IN  IF numericValue.nan THEN value
           ELSE ReplaceFirst(toFixed2(numericValue), ".", ",")

BlurInputs(ins, id) ==
  [i \in 1..Len(ins) |->
     IF ins[i].id = id THEN [ins[i] EXCEPT !.value = BlurValue(@)] ELSE ins[i]]

handleInputBlur(id) ==
  /\ variant = "strict"
  /\ inputs' = BlurInputs(inputs, id)
  /\ last' = [op |-> "handleInputBlur", ok |-> TRUE]
  /\ UNCHANGED <<variant, nextId, result, error, isResultVisible,
                 assigned, issued, failedSinceCall, failedSinceEdit>>

(***************************************************************************)
(* addInput, removeInput                                                   *)
(***************************************************************************)
\* The new row numbered by its position in the list.
NewIdFromLength(next) == Len(inputs) + 1

\* The id addInput gives the new row.
NewId(next) == next

addInput ==
  /\ Len(inputs) < MaxEntries
  /\ nextId <= MaxId
  /\ inputs' = Append(inputs, [id |-> NewId(nextId), value |-> <<>>])
  /\ nextId' = nextId + 1
  /\ assigned' = assigned \cup {NewId(nextId)}
  /\ issued' = issued \cup {NewId(nextId)}
  /\ last' = [op |-> "addInput", ok |-> TRUE]
  /\ UNCHANGED <<variant, result, error, isResultVisible,
                 failedSinceCall, failedSinceEdit>>

\* The guard letting the last row go.
MayRemoveLast(ins) == Len(ins) > 0

\* inputs.length > 1
MayRemove(ins) == Len(ins) > 1

removeInput(id) ==
  /\ inputs' = IF MayRemove(inputs)
               THEN SelectSeq(inputs, LAMBDA input : input.id # id)
               ELSE inputs
  /\ last' = [op |-> "removeInput", ok |-> MayRemove(inputs)]
  /\ UNCHANGED <<variant, nextId, result, error, isResultVisible,
                 assigned, issued, failedSinceCall, failedSinceEdit>>

(***************************************************************************)
(* handleCalculation                                                       *)
(***************************************************************************)
\* A successful calculation leaving the old error message in place.
ErrorAfterSuccessKept == error

\* setError('') once validation has passed.
ErrorAfterSuccess == NoError

handleCalculation ==
  LET w == Validate(variant, inputs)
  IN  /\ IF w.error # NoError
         THEN /\ error' = w.error
              /\ isResultVisible' = FALSE
              /\ UNCHANGED result
         ELSE /\ error' = ErrorAfterSuccess
              /\ result' \in Outcomes(variant, inputs)
              /\ isResultVisible' = TRUE
      /\ last' = [op |-> "handleCalculation", ok |-> (w.error = NoError)]
      /\ failedSinceCall' = (w.error # NoError)
      /\ failedSinceEdit' = (w.error # NoError)
      /\ UNCHANGED <<variant, inputs, nextId, assigned, issued>>

(***************************************************************************)
(* handleReset (strict version only)                                       *)
(***************************************************************************)
\* A reset that leaves the id counter where it is.
ResetNextIdKept == nextId

\* nextId.current = 2
ResetNextId == InitialNextId

handleReset ==
  /\ variant = "strict"
  /\ inputs' = InitialInputs
  /\ nextId' = ResetNextId
  /\ isResultVisible' = FALSE
  /\ error' = NoError
  /\ result' = InitialResult
  /\ assigned' = assigned \cup {1}
  /\ issued' = {1}
  /\ failedSinceEdit' = FALSE
  /\ last' = [op |-> "handleReset", ok |-> TRUE]
  /\ UNCHANGED <<variant, failedSinceCall>>

(***************************************************************************)
(* The form: every handler, on any row, with any of the raw texts.         *)
(***************************************************************************)
Next ==
  \/ \E id \in IdsOf(inputs), value \in RawTexts : handleInputChange(id, value)
  \/ \E id \in IdsOf(inputs) : handleInputBlur(id)
  \/ addInput
  \/ \E id \in IdsOf(inputs) : removeInput(id)
  \/ handleCalculation
  \/ handleReset

Spec == Init /\ [][Next]_vars

(***************************************************************************)
(* One row, every text of TypedTexts typed or pasted into it.              *)
(***************************************************************************)
NextText ==
  \/ \E id \in IdsOf(inputs), value \in TypedTexts : handleInputChange(id, value)
  \/ \E id \in IdsOf(inputs) : handleInputBlur(id)
  \/ handleReset

SpecText == Init /\ [][NextText]_vars

(***************************************************************************)
(* Filled-in forms: the state after the rows were added and each was given *)
(* a text the version stores (the first any text over Chars up to MaxLen,  *)
(* the second one of RawTexts), then blur and calculation.                 *)
(***************************************************************************)
FilledInputs(v) ==
  {<<[id |-> 1, value |-> t]>> : t \in {a \in AllTexts : Accepts(v, a)}}
    \cup {<<[id |-> 1, value |-> t], [id |-> 2, value |-> u]>> :
            t \in {a \in AllTexts : Accepts(v, a)},
            u \in {b \in RawTexts : Accepts(v, b)}}

InitRows ==
  /\ variant \in Variants
  /\ inputs \in FilledInputs(variant)
  /\ nextId = InitialNextId + Len(inputs) - 1
  /\ result = InitialResult
  /\ error = NoError
  /\ isResultVisible = FALSE
  /\ last = [op |-> "handleInputChange", ok |-> TRUE]
  /\ assigned = IdsOf(inputs)
  /\ issued = IdsOf(inputs)
  /\ failedSinceCall = FALSE
  /\ failedSinceEdit = FALSE

NextRows ==
  \/ \E id \in IdsOf(inputs) : handleInputBlur(id)
  \/ handleCalculation

SpecRows == InitRows /\ [][NextRows]_vars

(***************************************************************************)
(* Vocabulary of the properties, stated without the handlers' helpers.     *)
(***************************************************************************)
Texts(ins) == [i \in 1..Len(ins) |-> ins[i].value]

AllDigits(s) == \A i \in 1..Len(s) : s[i] \in Digits

\* Zero or more digits, optionally followed by one comma or period and zero
\* to two digits.
MatchesPattern(s) ==
  \E k \in 0..Len(s) :
    /\ AllDigits(SubSeq(s, 1, k))
    /\ \/ k = Len(s)
       \/ /\ s[k + 1] \in {",", "."}
          /\ Len(s) - (k + 1) <= 2
          /\ AllDigits(SubSeq(s, k + 2, Len(s)))

\* The amount a non-blank text stands for: its first comma read as the
\* decimal point.
Amount(s) == parseFloat(ReplaceFirst(s, ",", "."))

Blank(s) == \A i \in 1..Len(s) : s[i] = " "

\* A non-blank text that is no amount or a negative one.
Invalid(s) == ~Blank(s) /\ (Amount(s).nan \/ (Amount(s).neg /\ Amount(s).mant > 0))

\* Every entry blank or a non-negative amount, and no blank under strict.
ValidList(v, ins) ==
  \A i \in 1..Len(ins) :
    /\ ~Invalid(ins[i].value)
    /\ v = "strict" => ~Blank(ins[i].value)

\* Most fraction digits among the amounts of ins.
MaxFrac(ins) ==
  LET fs == {0} \cup {Amount(ins[i].value).frac : i \in {j \in 1..Len(ins) : ~Blank(ins[j].value)}}
  IN  CHOOSE f \in fs : \A g \in fs : g <= f

\* The sum of the non-blank amounts of ins[1..i] in units of 10^-k.
RECURSIVE UnitsUpTo(_, _, _)
UnitsUpTo(ins, i, k) ==
  IF i = 0 THEN 0
  ELSE UnitsUpTo(ins, i - 1, k)
         + (IF Blank(ins[i].value) THEN 0
            ELSE Amount(ins[i].value).mant * Pow10(k - Amount(ins[i].value).frac))

\* h hundredths is a nearest rendering of (sum / count) * 0.05:
\* |h/100 - units * 5 / (count * 10^k * 100)| <= 1/200.
NearestHundredths(ins, h) ==
  LET k   == MaxFrac(ins)
      num == UnitsUpTo(ins, Len(ins), k) * 5
      den == Len(ins) * Pow10(k)
  IN  /\ 2 * (h * den) <= 2 * num + den
      /\ 2 * num <= 2 * (h * den) + den

\* The hundredths a displayed number stands for: group separators "." aside,
\* digits, a comma and exactly two digits; none for any other text.
DisplayedHundredths(number) ==
  LET n  == Len(number)
      ip == SelectSeq(SubSeq(number, 1, n - 3), LAMBDA c : c # ".")
  IN  IF /\ n >= 4
         /\ number[n - 2] = ","
         /\ AllDigits(SubSeq(number, n - 1, n))
         /\ ip # <<>>
         /\ AllDigits(ip)
      THEN {DigitsToNat(ip \o SubSeq(number, n - 1, n))}
      ELSE {}

C2_AtLeastOne ==
  /\ [](Len(inputs) >= 1)
  /\ [][(last'.op = "removeInput" /\ Len(inputs) = 1)
           => (inputs' = inputs /\ error' = error /\ result' = result
               /\ isResultVisible' = isResultVisible)]_vars

C2_Witness ==
  /\ last = [op |-> "removeInput", ok |-> FALSE]
  /\ Len(inputs) = 1
  /\ inputs[1].value # <<>>

\* The typed texts that do not match the pattern.
NonMatchingTexts == {t \in TypedTexts : ~MatchesPattern(t)}

C4_ResetIsInitial ==
  last.op = "handleReset" =>
     /\ inputs = <<[id |-> 1, value |-> <<>>]>>
     /\ nextId = 2
     /\ error = ""
     /\ result = [number |-> <<"0", ".", "0", "0">>, currency |-> <<"€">>]
     /\ isResultVisible = FALSE

C4_Witness ==
  /\ last.op = "handleReset"
  /\ 3 \in assigned

(***************************************************************************)
(* C5: a calculate() call on a list that fails (a blank entry under strict,*)
(* or a non-blank entry that is no amount or is negative) sets the error,  *)
(* leaves the result and every entry as they were, and the result is not   *)
(* shown afterwards.                                                       *)
(***************************************************************************)
C5_FailureFrame ==
  [][(last'.op = "handleCalculation" /\ ~ValidList(variant, inputs))
        => /\ error' \in {MissingAmount, InvalidAmount}
           /\ result' = result
           /\ inputs' = inputs
           /\ isResultVisible' = FALSE]_vars

C5_Witness ==
  /\ last = [op |-> "handleCalculation", ok |-> FALSE]
  /\ error = InvalidAmount
  /\ result.number = <<"0", ",", "7", "5">>
  /\ ~isResultVisible

(***************************************************************************)
(* C6 as written: under strict, calculate() on a list with a blank entry   *)
(* fails with MissingAmount, whatever the other entries hold and wherever  *)
(* the blank entry is.                                                     *)
(***************************************************************************)
C6_BlankGivesMissing ==
  (variant = "strict" /\ last.op = "handleCalculation"
     /\ \E i \in 1..Len(inputs) : Blank(inputs[i].value))
    => error = MissingAmount

(***************************************************************************)
(* C6 as amended: under strict, calculate() on a list with a blank entry   *)
(* fails; it fails with MissingAmount when every entry before the first    *)
(* blank one is an amount, and with InvalidAmount when one of them is not. *)
(***************************************************************************)
C6_FirstFailureDecides ==
  (variant = "strict" /\ last.op = "handleCalculation"
     /\ \E i \in 1..Len(inputs) : Blank(inputs[i].value))
    => LET b == CHOOSE i \in 1..Len(inputs) :
                   /\ Blank(inputs[i].value)
                   /\ \A j \in 1..(i - 1) : ~Blank(inputs[j].value)
       IN  /\ ~last.ok
           /\ ~isResultVisible
           /\ error = IF \A j \in 1..(b - 1) : ~Invalid(inputs[j].value)
                      THEN MissingAmount ELSE InvalidAmount

C6_Witness ==
  /\ variant = "strict"
  /\ last.op = "handleCalculation"
  /\ Texts(inputs) = << <<"1", "0">>, <<>> >>
  /\ error = MissingAmount

(***************************************************************************)
(* C7: normalizeOnCommit applied to an entry a second time changes         *)
(* nothing, leaves a blank text as it is, and changes no other entry, nor  *)
(* the error, the result or its visibility.                                *)
(***************************************************************************)
C7_BlurIdempotent ==
  [][\A id \in IdsOf(inputs) :
       handleInputBlur(id) =>
          /\ BlurInputs(inputs', id) = inputs'
          /\ \A i \in 1..Len(inputs) :
                (inputs[i].id # id \/ Blank(inputs[i].value)) => inputs'[i] = inputs[i]
          /\ Len(inputs') = Len(inputs)
          /\ error' = error /\ result' = result
          /\ isResultVisible' = isResultVisible]_vars

C7_Witness ==
  /\ variant = "strict"
  /\ last.op = "handleInputBlur"
  /\ Len(inputs) = 2
  /\ inputs[1].value = <<"0", ",", "5", "0">>
  /\ inputs[2].value = <<"2", "0">>
  /\ error = NoError
  /\ isResultVisible

Distinct(ins) == \A i, j \in 1..Len(ins) : ins[i].id = ins[j].id => i = j

(***************************************************************************)
(* C8 as written: over addEntry, removeEntry and reset, the id addEntry    *)
(* gives a new entry was never given to an entry before, and the ids in    *)
(* the list are pairwise distinct.                                         *)
(***************************************************************************)
C8_NeverReused ==
  /\ [](Distinct(inputs))
  /\ [][last'.op = "addInput" => inputs'[Len(inputs')].id \notin assigned]_vars

(***************************************************************************)
(* C8 as amended: the id addEntry gives a new entry was never given to an  *)
(* entry since construction or the last reset(), and the ids in the list   *)
(* are pairwise distinct; reset() starts the numbering again at 1.         *)
(***************************************************************************)
C8_NeverReusedSinceReset ==
  /\ [](Distinct(inputs))
  /\ [][last'.op = "addInput" => inputs'[Len(inputs')].id \notin issued]_vars
  /\ [][last'.op = "handleReset" => IdsOf(inputs') = {1}]_vars

C8_Witness ==
  /\ last.op = "addInput"
  /\ IdsOf(inputs) = {2, 3}
  /\ issued = {1, 2, 3}

(***************************************************************************)
(* C9 as written: the error is present exactly when the most recent        *)
(* calculate() failed and updateEntry was not called since.                *)
(***************************************************************************)
C9_ErrorUntilAnyEdit == (error # NoError) <=> failedSinceCall

(***************************************************************************)
(* C9 as amended: the error is present exactly when the most recent        *)
(* calculate() failed and since then no updateEntry call stored its text   *)
(* and reset() was not called; addEntry, removeEntry and normalizeOnCommit *)
(* leave the error as it is.                                               *)
(***************************************************************************)
C9_ErrorUntilStoredEdit ==
  /\ []((error # NoError) <=> failedSinceEdit)
  /\ [][last'.op \in {"addInput", "removeInput", "handleInputBlur"}
          => error' = error]_vars

C9_Witness ==
  /\ variant = "strict"
  /\ last = [op |-> "handleInputChange", ok |-> FALSE]
  /\ error = InvalidAmount
  /\ failedSinceEdit

====
